---- MODULE Spec2Model ----
(***************************************************************************)
(* A model of SRI_Scrapper/SRI_Compras_Scrapper_V1.py: the SRIDownloader   *)
(* session (run), the page pass (download_current_page), the row download  *)
(* (download_document_by_index), the file organizer                         *)
(* (move_downloaded_files) and pagination (go_to_next_page), together with *)
(* the browser's download manager and the portal as the environment.       *)
(***************************************************************************)
EXTENDS Naturals, Sequences, FiniteSets, TLC

(***************************************************************************)
(* Bounds of the model.                                                    *)
(***************************************************************************)
\* page passes of the session loop (page_count never exceeds it)
MaxPages == 2
\* faults of the environment during one session: a download still
\* unfinished when the wait for it returns, a download that fails, a click
\* that raises, a filesystem error, a downloaded file growing older than
\* 20 seconds
MaxFaults == 2

(***************************************************************************)
(* Strings.  TLC evaluates Len, SubSeq and \o on strings, so the text      *)
(* functions of the program are computed character by character.          *)
(***************************************************************************)
Chr(s, i) == SubSeq(s, i, i)

Digits == {"0", "1", "2", "3", "4", "5", "6", "7", "8", "9"}

Letters ==
    {"a", "b", "c", "d", "e", "f", "g", "h", "i", "j", "k", "l", "m",
     "n", "o", "p", "q", "r", "s", "t", "u", "v", "w", "x", "y", "z",
     "A", "B", "C", "D", "E", "F", "G", "H", "I", "J", "K", "L", "M",
     "N", "O", "P", "Q", "R", "S", "T", "U", "V", "W", "X", "Y", "Z"}

\* str.isalnum of one character
IsAlnum(c) == c \in Letters \cup Digits

\* needle in hay (Python's substring test)
Contains(hay, needle) ==
    \E i \in 1..(Len(hay) + 1) :
        /\ i + Len(needle) - 1 <= Len(hay)
        /\ SubSeq(hay, i, i + Len(needle) - 1) = needle

\* str.strip() of a text whose only whitespace is the space
RECURSIVE LStrip(_)
LStrip(s) ==
    IF Len(s) > 0 /\ Chr(s, 1) = " " THEN LStrip(SubSeq(s, 2, Len(s))) ELSE s

RECURSIVE RStrip(_)
RStrip(s) ==
    IF Len(s) > 0 /\ Chr(s, Len(s)) = " "
    THEN RStrip(SubSeq(s, 1, Len(s) - 1))
    ELSE s

Strip(s) == RStrip(LStrip(s))

\* str.lower() on the characters the model's texts use
LowerOf(c) ==
    CASE c = "Y" -> "y" [] c = "N" -> "n" [] c = "R" -> "r"
      [] c = "P" -> "p" [] c = "D" -> "d" [] c = "F" -> "f"
      [] c = "X" -> "x" [] c = "M" -> "m" [] c = "L" -> "l"
      [] OTHER -> c

RECURSIVE Lower(_)
Lower(s) ==
    IF Len(s) = 0 THEN s
    ELSE LowerOf(Chr(s, 1)) \o Lower(SubSeq(s, 2, Len(s)))

\* "".join(c for c in factura_number if c.isalnum() or c in ('-', '_', ' '))
RECURSIVE KeepSafe(_)
KeepSafe(s) ==
    IF Len(s) = 0 THEN s
    ELSE LET c == Chr(s, 1)
             rest == KeepSafe(SubSeq(s, 2, Len(s)))
         IN  IF IsAlnum(c) \/ c \in {"-", "_", " "} THEN c \o rest ELSE rest

\* re.sub(r'(Facturas)(Number)', r'\1 \2', s)
RECURSIVE SpaceLabels(_)
SpaceLabels(s) ==
    IF Len(s) < 14 THEN s
    ELSE IF SubSeq(s, 1, 14) = "FacturasNumber"
         THEN "Facturas Number" \o SpaceLabels(SubSeq(s, 15, Len(s)))
         ELSE Chr(s, 1) \o SpaceLabels(SubSeq(s, 2, Len(s)))

\* the clean_name of move_downloaded_files; now stands for int(time.time())
CleanName(factura_number, now) ==
    LET clean == SpaceLabels(Strip(KeepSafe(factura_number)))
    IN  IF clean = "" THEN "documento_" \o ToString(now) ELSE clean

\* str.split(':')
RECURSIVE SplitColon(_)
SplitColon(s) ==
    IF \A i \in 1..Len(s) : Chr(s, i) # ":" THEN <<s>>
    ELSE LET i == CHOOSE j \in 1..Len(s) :
                      /\ Chr(s, j) = ":"
                      /\ \A k \in 1..(j - 1) : Chr(s, k) # ":"
         IN  <<SubSeq(s, 1, i - 1)>> \o SplitColon(SubSeq(s, i + 1, Len(s)))

\* str.isdigit()
IsDigit(s) == Len(s) > 0 /\ \A i \in 1..Len(s) : Chr(s, i) \in Digits

DigitVal(c) ==
    CASE c = "0" -> 0 [] c = "1" -> 1 [] c = "2" -> 2 [] c = "3" -> 3
      [] c = "4" -> 4 [] c = "5" -> 5 [] c = "6" -> 6 [] c = "7" -> 7
      [] c = "8" -> 8 [] c = "9" -> 9

\* int(s) of a digit string
RECURSIVE ToInt(_)
ToInt(s) ==
    IF Len(s) = 0 THEN 0
    ELSE 10 * ToInt(SubSeq(s, 1, Len(s) - 1)) + DigitVal(Chr(s, Len(s)))


(***************************************************************************)
(* The portal.  A page is its table rows in DOM order and the class        *)
(* attributes of its ".ui-paginator-next" controls in DOM order.  A row is *)
(* the id of its XML and PDF anchors ("" when the anchor is absent), the   *)
(* texts of its cells, whether each anchor is displayed and enabled, and   *)
(* the suffix of the file the portal serves for each.                      *)
(***************************************************************************)
NoClass == "None"

Row(xid, pid, cells, xon, pon, pext) ==
    [xmlId |-> xid, pdfId |-> pid, cells |-> cells,
     xmlOn |-> xon, pdfOn |-> pon, xmlExt |-> ".xml", pdfExt |-> pext]

Pages ==
    << \* 1: first page of the table: row 0, and a row without PDF anchor
       [rows |-> << Row("frmPrincipal:tablaCompRecibidos:0:lnkXml",
                        "frmPrincipal:tablaCompRecibidos:0:lnkPdf",
                        <<"1", "1790011223001", " F-1 ">>, TRUE, TRUE, ".pdf"),
                    Row("frmPrincipal:tablaCompRecibidos:1:lnkXml", "",
                        <<"2", "1790011223001", "F-1_1">>, TRUE, FALSE, ".pdf") >>,
        next |-> << "ui-paginator-next ui-state-default",
                    "ui-paginator-next ui-state-default" >>],
       \* 2: rows 5, 7, 9, every link enabled, distinct invoice numbers
       [rows |-> << Row("frmPrincipal:tablaCompRecibidos:5:lnkXml",
                        "frmPrincipal:tablaCompRecibidos:5:lnkPdf",
                        <<"1", "1790011223001", "001-5">>, TRUE, TRUE, ".pdf"),
                    Row("frmPrincipal:tablaCompRecibidos:7:lnkXml",
                        "frmPrincipal:tablaCompRecibidos:7:lnkPdf",
                        <<"2", "1790011223001", "001-7">>, TRUE, TRUE, ".PDF"),
                    Row("frmPrincipal:tablaCompRecibidos:9:lnkXml",
                        "frmPrincipal:tablaCompRecibidos:9:lnkPdf",
                        <<"3", "1790011223001", "001-9">>, TRUE, TRUE, ".pdf") >>,
        next |-> << "ui-paginator-next ui-state-disabled",
                    "ui-paginator-next ui-state-default" >>],
       \* 3: one anchor matching the selector whose id holds no row index
       [rows |-> << Row("tablaCompRecibidos-lnkXml", "",
                        <<"1", "1790011223001", "001-3">>, TRUE, FALSE, ".pdf") >>,
        next |-> << NoClass >>],
       \* 4: no anchors at all, every next control disabled
       [rows |-> << >>,
        next |-> << "ui-paginator-next ui-state-default ui-state-disabled",
                    "ui-paginator-next ui-state-disabled" >>],
       \* 5: a row of two cells with a disabled PDF link, a row whose index
       \*    is written with a leading zero, a row whose invoice text has no
       \*    safe character; no next control
       [rows |-> << Row("frmPrincipal:tablaCompRecibidos:12:lnkXml",
                        "frmPrincipal:tablaCompRecibidos:12:lnkPdf",
                        <<"1", "1790011223001">>, TRUE, FALSE, ".pdf"),
                    Row("frmPrincipal:tablaCompRecibidos:013:lnkXml",
                        "frmPrincipal:tablaCompRecibidos:013:lnkPdf",
                        <<"2", "1790011223001", "001-13">>, TRUE, TRUE, ".pdf"),
                    Row("frmPrincipal:tablaCompRecibidos:14:lnkXml", "",
                        <<"3", "1790011223001", "/.">>, TRUE, FALSE, ".pdf") >>,
        next |-> << >>] >>

PageIds == 1..Len(Pages)

\* the page the portal shows after a click on an enabled next control
NextPageOf(p) == IF p < 4 THEN p + 1 ELSE p

\* values of int(time.time()) during a session
Clock == {1700000000, 1700000001}

\* lines the operator types at the "Choose option (y/n/r)" prompt
ChoiceInputs == {"y", " Y ", "n", "N", "r", "x"}

(***************************************************************************)
(* DOM lookups of the page pass and of the row download.                   *)
(***************************************************************************)
\* a[id*='tablaCompRecibidos'][id*='lnkXml']
MatchesXmlSelector(id) ==
    Contains(id, "tablaCompRecibidos") /\ Contains(id, "lnkXml")

\* the ids of find_elements(By.CSS_SELECTOR, ...), in DOM order
XmlLinkIds(p) ==
    LET rows == Pages[p].rows
        F[i \in 0..Len(rows)] ==
            IF i = 0 THEN << >>
            ELSE IF rows[i].xmlId # "" /\ MatchesXmlSelector(rows[i].xmlId)
                 THEN Append(F[i - 1], rows[i].xmlId)
                 ELSE F[i - 1]
    IN  F[Len(rows)]

\* document_indices: parts = link_id.split(':'); parts[2] when it is digits
DocumentIndices(ids) ==
    LET F[i \in 0..Len(ids)] ==
            IF i = 0 THEN << >>
            ELSE LET parts == SplitColon(ids[i])
                 IN  IF Len(parts) >= 3 /\ IsDigit(parts[3])
                     THEN Append(F[i - 1], ToInt(parts[3]))
                     ELSE F[i - 1]
    IN  F[Len(ids)]

XmlLinkId(index) ==
    "frmPrincipal:tablaCompRecibidos:" \o ToString(index) \o ":lnkXml"

PdfLinkId(index) ==
    "frmPrincipal:tablaCompRecibidos:" \o ToString(index) \o ":lnkPdf"

\* find_element(By.ID, id): the position of the first row holding the
\* anchor, 0 for NoSuchElementException
FindXml(p, id) ==
    LET rows == Pages[p].rows
        hits == {i \in 1..Len(rows) : rows[i].xmlId = id}
    IN  IF hits = {} THEN 0 ELSE CHOOSE i \in hits : \A j \in hits : i <= j

FindPdf(p, id) ==
    LET rows == Pages[p].rows
        hits == {i \in 1..Len(rows) : rows[i].pdfId = id}
    IN  IF hits = {} THEN 0 ELSE CHOOSE i \in hits : \A j \in hits : i <= j

\* link.is_displayed() and link.is_enabled() of the anchor found at row r
XmlActionable(p, r) == IF r = 0 THEN FALSE ELSE Pages[p].rows[r].xmlOn

PdfActionable(p, r) == IF r = 0 THEN FALSE ELSE Pages[p].rows[r].pdfOn

\* factura_number of download_document_by_index
FacturaNumber(p, index) ==
    LET r == FindXml(p, XmlLinkId(index))
        fallback == "documento_" \o ToString(index)
    IN  IF r = 0 THEN fallback
        ELSE LET cells == Pages[p].rows[r].cells
             IN  IF Len(cells) >= 3 /\ Strip(cells[3]) # ""
                 THEN Strip(cells[3])
                 ELSE fallback


(***************************************************************************)
(* The file organizer's pure parts.  A category directory (pdf_dir,        *)
(* xml_dir) is a function from file names to the file stored under it.     *)
(***************************************************************************)
EmptyDir == [n \in {} |-> 0]

\* original_dest.with_stem(f"{original_dest.stem}_{counter}") as a name
WithStem(clean, counter, ext) == clean \o "_" \o ToString(counter) \o ext

\* the loop left out: the first path is taken as it is
DedupLoopSkipped(dir, dest, clean, ext, counter) ==
    [name |-> dest, counter |-> counter]

\* the "Handle duplicate filenames" loop: the first free path and the
\* counter the loop ends with
RECURSIVE DedupLoop(_, _, _, _, _)
DedupLoop(dir, dest, clean, ext, counter) ==
    IF dest \in DOMAIN dir
    THEN DedupLoop(dir, WithStem(clean, counter, ext), clean, ext, counter + 1)
    ELSE [name |-> dest, counter |-> counter]

\* shutil.move onto a path of the directory (a rename replaces what is there)
Place(dir, name, file) ==
    [n \in DOMAIN dir \cup {name} |-> IF n = name THEN file ELSE dir[n]]

FileType(ext) == IF Lower(ext) = ".pdf" THEN "PDF" ELSE "XML"

\* the loop over recent_files: the directories after moving the files of
\* order one by one, and the moved_files list
RECURSIVE MoveLoop(_, _, _, _, _)
MoveLoop(order, clean, pdf, xml, moved) ==
    IF order = << >> THEN [pdf |-> pdf, xml |-> xml, moved |-> moved]
    ELSE LET f == Head(order)
             ext == Lower(f.ext)
             dir == IF ext = ".pdf" THEN pdf ELSE xml
             d == DedupLoop(dir, clean \o ext, clean, ext, 1)
             stored == [pass |-> f.pass, page |-> f.page, idx |-> f.idx,
                        clean |-> clean, k |-> d.counter - 1]
             dir2 == Place(dir, d.name, stored)
         IN  MoveLoop(Tail(order), clean,
                      IF ext = ".pdf" THEN dir2 ELSE pdf,
                      IF ext = ".pdf" THEN xml ELSE dir2,
                      Append(moved, <<FileType(ext), d.name>>))

\* the files the scan of temp_dir keeps: regular files modified within the
\* last 20 seconds whose lowered suffix is .pdf or .xml
RecentFiles(dir) ==
    {f \in dir : f.recent /\ Lower(f.ext) \in {".pdf", ".xml"}}

\* the orders iterdir may list a set of files in
Orders(S) ==
    {o \in [1..Cardinality(S) -> S] :
        \A i, j \in 1..Cardinality(S) : i # j => o[i] # o[j]}

(***************************************************************************)
(* Pagination's pure parts.                                                *)
(***************************************************************************)
DisabledMarker == "ui-state-disabled"

\* next_button.get_attribute("class") or ""
ClassesOf(c) == IF c = NoClass THEN "" ELSE c

\* "ui-state-disabled" not in classes
IsEnabled(c) == ~Contains(ClassesOf(c), DisabledMarker)

\* the position of the control the loop of go_to_next_page stops at, 0 when
\* it runs to its end
FirstEnabled(buttons) ==
    LET on == {i \in 1..Len(buttons) : IsEnabled(buttons[i])}
    IN  IF on = {} THEN 0 ELSE CHOOSE i \in on : \A j \in on : i <= j

\* choice = input(...).lower().strip()
NormalizeChoice(line) == Strip(Lower(line))

(***************************************************************************)
(* State.                                                                  *)
(***************************************************************************)
VARIABLES
    pc,            \* where run is
    driver,        \* self.driver: "None", "open" or "closed" (after quit)
    quits,         \* calls of driver.quit()
    how,           \* how the try block of run was left
    summary,       \* the DOWNLOAD SUMMARY was printed
    page_count,    \* run's page_count
    total_success, \* run's total_success
    curPage,       \* the page the browser shows (0: not on the table yet)
    docs,          \* download_current_page's document_indices
    pos,           \* position of its loop in docs
    successful,    \* its successful counter
    factura,       \* download_document_by_index's factura_number
    okTypes,       \* its downloads_successful
    pending,       \* downloads the browser has requested or has in progress
    tempDir,       \* files of temp_dir (the Downloads folder)
    pdfDir,        \* files of pdf_dir
    xmlDir,        \* files of xml_dir
    faults,        \* faults of the environment so far
    loggedIn,      \* the operator confirmed the login prompt
    choices,       \* lines read at the "Choose option" prompt
    lastChoice,    \* the last of them, normalized
    nextCalls,     \* calls of go_to_next_page
    lastNext,      \* what the last call of go_to_next_page did
    lastRow,       \* what the last call of download_document_by_index did
    lastMove,      \* what the last call of move_downloaded_files returned
    lastPage,      \* how the last call of download_current_page ended
    prompts,       \* row ordinals at which the multi-download prompt was shown
    rowsStarted,   \* calls of download_document_by_index
    zeroAt         \* page_count of the first page pass that found no document

vars == <<pc, driver, quits, how, summary, page_count, total_success, curPage,
          docs, pos, successful, factura, okTypes, pending, tempDir, pdfDir,
          xmlDir, faults, loggedIn, choices, lastChoice, nextCalls,
          lastNext, lastRow, lastMove, lastPage, prompts, rowsStarted, zeroAt>>

runVars == <<driver, quits, how, summary>>
loopVars == <<page_count, total_success, curPage, loggedIn, choices,
              lastChoice, nextCalls, lastNext>>
pageVars == <<docs, pos, successful, lastPage, zeroAt>>
rowVars == <<factura, okTypes, lastRow, rowsStarted, prompts>>
fsVars == <<tempDir, pdfDir, xmlDir, lastMove>>
dlVars == <<pending, faults>>

NoRow == [called |-> FALSE, idx |-> 0, ret |-> FALSE, ok |-> {}, moved |-> {}]
NoNext == [page |-> 0, clicked |-> << >>, ret |-> FALSE, raised |-> FALSE]
NoMove == [ret |-> << >>]

\* a file of the Downloads folder that is no document
OtherFile == [pass |-> 0, page |-> 0, idx |-> 0, ext |-> ".txt", recent |-> TRUE]

Init ==
    /\ pc = "start"
    /\ driver = "None"
    /\ quits = 0
    /\ how = "running"
    /\ summary = FALSE
    /\ page_count = 0
    /\ total_success = 0
    /\ curPage = 0
    /\ docs = << >>
    /\ pos = 0
    /\ successful = 0
    /\ factura = ""
    /\ okTypes = << >>
    /\ pending = {}
    /\ tempDir = {OtherFile}
    /\ pdfDir = EmptyDir
    /\ xmlDir = EmptyDir
    /\ faults = 0
    /\ loggedIn = FALSE
    /\ choices = 0
    /\ lastChoice = ""
    /\ nextCalls = 0
    /\ lastNext = NoNext
    /\ lastRow = NoRow
    /\ lastMove = NoMove
    /\ lastPage = "none"
    /\ prompts = {}
    /\ rowsStarted = 0
    /\ zeroAt = 0

(***************************************************************************)
(* run: cleanup, setup, navigation, login.                                 *)
(***************************************************************************)
\* a finally block that closes nothing
QuitCallsNone(d) == 0

\* the driver.quit() calls of run's finally block: "if self.driver:"
QuitCalls(d) == IF d # "None" THEN 1 ELSE 0

\* run ends: its finally block runs and run returns.  h tells how the try
\* block was left: "normal" (its last statement), "interrupt" (the
\* except KeyboardInterrupt clause) or "error" (the except Exception clause)
Finally(h) ==
    /\ how' = h
    /\ quits' = quits + QuitCalls(driver)
    /\ driver' = IF QuitCalls(driver) > 0 THEN "closed" ELSE driver
    /\ pc' = "exited"

\* the summary printed by the except clause too
FailsWithSummary == Finally("error") /\ summary' = TRUE

\* an Exception reaches run's "except Exception" clause
Fails == Finally("error") /\ summary' = summary

\* self.setup_driver(): webdriver.Chrome starts, or raises and re-raises
SetupDriver ==
    /\ pc = "start"
    /\ \/ /\ driver' = "open"
          /\ pc' = "navigate"
          /\ UNCHANGED <<quits, how, summary>>
       \/ Fails
    /\ UNCHANGED <<loopVars, pageVars, rowVars, fsVars, dlVars>>

\* self.driver.get(start_url)
Navigate ==
    /\ pc = "navigate"
    /\ \/ pc' = "login" /\ UNCHANGED runVars
       \/ Fails
    /\ UNCHANGED <<loopVars, pageVars, rowVars, fsVars, dlVars>>

\* input("Press Enter when ready to start downloading..."): the operator
\* has logged in and opened some page of the table, or stdin is closed
Login ==
    /\ pc = "login"
    /\ \/ /\ \E p \in PageIds : curPage' = p
          /\ loggedIn' = TRUE
          /\ pc' = "page"
          /\ UNCHANGED runVars
       \/ /\ Fails
          /\ UNCHANGED <<curPage, loggedIn>>
    /\ UNCHANGED <<page_count, total_success, choices, lastChoice, nextCalls,
                   lastNext>>
    /\ UNCHANGED <<pageVars, rowVars, fsVars, dlVars>>

(***************************************************************************)
(* download_current_page and download_document_by_index.                   *)
(***************************************************************************)
\* the loop left when the page pass returned False
AfterPageBreaks(ok) == IF ok THEN "choice" ELSE "summary"

\* where run goes once download_current_page has returned ok: it reads the
\* operator's choice whatever the page pass returned
AfterPage(ok) == "choice"

\* download_current_page returns ok to run
PageReturns(ok, tag) ==
    /\ pc' = AfterPage(ok)
    /\ total_success' = IF ok THEN total_success + 1 ELSE total_success
    /\ lastPage' = tag

\* "while True: page_count += 1" and download_current_page up to its loop
PageStart ==
    /\ pc = "page"
    /\ page_count < MaxPages
    /\ page_count' = page_count + 1
    /\ LET ids == XmlLinkIds(curPage)
           indices == DocumentIndices(ids)
       IN  \/ \* wait.until finds no anchor: TimeoutException
              /\ ids = << >>
              /\ PageReturns(FALSE, "timeout")
              /\ zeroAt' = IF zeroAt = 0 THEN page_count' ELSE zeroAt
              /\ UNCHANGED <<docs, pos, successful>>
           \/ \* num_documents == 0
              /\ ids # << >>
              /\ indices = << >>
              /\ PageReturns(FALSE, "nodocs")
              /\ zeroAt' = IF zeroAt = 0 THEN page_count' ELSE zeroAt
              /\ UNCHANGED <<docs, pos, successful>>
           \/ \* a lookup raises: "Error downloading page"
              /\ PageReturns(FALSE, "error")
              /\ UNCHANGED <<docs, pos, successful, zeroAt>>
           \/ /\ indices # << >>
              /\ docs' = indices
              /\ pos' = 1
              /\ successful' = 0
              /\ pc' = "xml"
              /\ UNCHANGED <<total_success, lastPage, zeroAt>>
    /\ lastNext' = NoNext
    /\ UNCHANGED <<curPage, loggedIn, choices, lastChoice, nextCalls>>
    /\ UNCHANGED <<runVars, rowVars, fsVars, dlVars>>

\* execute_script("arguments[0].click();", link) on a link of the row at
\* position r: the browser requests the file
Click(r, ext) ==
    /\ faults' = faults
    /\ pending' = pending \cup
           {[pass |-> page_count, page |-> curPage, idx |-> docs[pos],
             ext |-> ext, st |-> "requested"]}

\* execute_script raises a WebDriverException and nothing is requested
ClickRaises ==
    /\ faults < MaxFaults
    /\ faults' = faults + 1
    /\ pending' = pending

\* the invoice number and the XML link of the row: lines 120-151
TriggerXml ==
    /\ pc = "xml"
    /\ rowsStarted' = rowsStarted + 1
    /\ factura' = FacturaNumber(curPage, docs[pos])
    /\ okTypes' = << >>
    /\ LET r == FindXml(curPage, XmlLinkId(docs[pos]))
       IN  \/ \* NoSuchElementException, or not displayed and enabled
              /\ ~XmlActionable(curPage, r)
              /\ pc' = "pdf"
              /\ UNCHANGED dlVars
           \/ /\ XmlActionable(curPage, r)
              /\ Click(r, Pages[curPage].rows[r].xmlExt)
              /\ pc' = "xmlwait"
           \/ \* the click raises: "XML error"
              /\ XmlActionable(curPage, r)
              /\ ClickRaises
              /\ pc' = "pdf"
    /\ lastRow' = NoRow
    /\ lastMove' = NoMove
    /\ UNCHANGED <<prompts, tempDir, pdfDir, xmlDir>>
    /\ UNCHANGED <<runVars, loopVars, pageVars>>

\* a *.crdownload file is in temp_dir
Downloading == \E d \in pending : d.st = "inflight"

\* wait_for_download_complete(): True when no *.crdownload file is in
\* temp_dir, False when one outlasts the 15 s.  A return that leaves a
\* download unfinished is a fault of the environment
WaitReturns(result) ==
    /\ result = ~Downloading
    /\ pending # {} => faults < MaxFaults
    /\ faults' = IF pending # {} THEN faults + 1 ELSE faults
    /\ pending' = pending

\* if self.wait_for_download_complete(): downloads_successful.append("XML")
XmlWait ==
    /\ pc = "xmlwait"
    /\ \E result \in BOOLEAN :
        /\ WaitReturns(result)
        /\ okTypes' = IF result THEN Append(okTypes, "XML") ELSE okTypes
    /\ pc' = "pdf"
    /\ UNCHANGED <<factura, lastRow, rowsStarted, prompts>>
    /\ UNCHANGED <<runVars, loopVars, pageVars, fsVars>>

\* "if index == 0: input(...)": the row goes on to the prompt or to the move
AfterPdf ==
    IF docs[pos] = 0
    THEN pc' = "prompt" /\ prompts' = prompts \cup {rowsStarted}
    ELSE pc' = "organize" /\ prompts' = prompts

\* the PDF link of the row: lines 169-172
TriggerPdf ==
    /\ pc = "pdf"
    /\ LET r == FindPdf(curPage, PdfLinkId(docs[pos]))
       IN  \/ \* NoSuchElementException, or not displayed and enabled
              /\ ~PdfActionable(curPage, r)
              /\ AfterPdf
              /\ UNCHANGED dlVars
           \/ /\ PdfActionable(curPage, r)
              /\ Click(r, Pages[curPage].rows[r].pdfExt)
              /\ pc' = "pdfwait"
              /\ prompts' = prompts
           \/ \* the click raises: "PDF error"
              /\ PdfActionable(curPage, r)
              /\ ClickRaises
              /\ AfterPdf
    /\ UNCHANGED <<factura, okTypes, lastRow, rowsStarted>>
    /\ UNCHANGED <<runVars, loopVars, pageVars, fsVars>>

PdfWait ==
    /\ pc = "pdfwait"
    /\ \E result \in BOOLEAN :
        /\ WaitReturns(result)
        /\ okTypes' = IF result THEN Append(okTypes, "PDF") ELSE okTypes
    /\ AfterPdf
    /\ UNCHANGED <<factura, lastRow, rowsStarted>>
    /\ UNCHANGED <<runVars, loopVars, pageVars, fsVars>>

\* download_document_by_index returns ret to the loop of
\* download_current_page, which goes to its next row or returns
RowReturns(ret, ok, moved) ==
    /\ lastRow' = [called |-> TRUE, idx |-> docs[pos], ret |-> ret, ok |-> ok,
                   moved |-> moved]
    /\ successful' = IF ret THEN successful + 1 ELSE successful
    /\ docs' = docs
    /\ zeroAt' = zeroAt
    /\ IF pos < Len(docs)
       THEN /\ pos' = pos + 1
            /\ pc' = "xml"
            /\ UNCHANGED <<total_success, lastPage>>
       ELSE /\ pos' = pos
            /\ PageReturns(successful' > 0, "done")

SetOf(seq) == {seq[i] : i \in 1..Len(seq)}

\* the multi-download prompt of row 0: Enter, or stdin is closed and the
\* EOFError ends the row in its "except Exception"
Prompt ==
    /\ pc = "prompt"
    /\ \/ /\ pc' = "organize"
          /\ UNCHANGED <<pageVars, lastRow, total_success>>
       \/ RowReturns(FALSE, SetOf(okTypes), {})
    /\ UNCHANGED <<factura, okTypes, rowsStarted, prompts>>
    /\ UNCHANGED <<page_count, curPage, loggedIn, choices, lastChoice,
                   nextCalls, lastNext>>
    /\ UNCHANGED <<runVars, fsVars, dlVars>>

\* what move_downloaded_files returns: moved_files, or [] from its except
MoveResult(raised, moved) == IF raised THEN << >> ELSE moved

\* lines 188-194: move_downloaded_files(factura_number) when a download
\* was confirmed, and the row's return.  errAt = 0: the scan of temp_dir
\* raises; errAt = k: the k-th shutil.move raises; past the last: no error
Organize ==
    /\ pc = "organize"
    /\ \/ /\ okTypes = << >>
          /\ RowReturns(FALSE, {}, {})
          /\ UNCHANGED <<fsVars, faults>>
       \/ /\ okTypes # << >>
          /\ \E now \in Clock, order \in Orders(RecentFiles(tempDir)) :
             \E errAt \in 0..(Len(order) + 1) :
               LET raised == errAt <= Len(order)
                   n == IF errAt = 0 THEN 0 ELSE errAt - 1
                   done == SubSeq(order, 1, n)
                   res == MoveLoop(done, CleanName(factura, now),
                                   pdfDir, xmlDir, << >>)
                   ret == MoveResult(raised, res.moved)
               IN  /\ raised => faults < MaxFaults
                   /\ faults' = IF raised THEN faults + 1 ELSE faults
                   /\ pdfDir' = res.pdf
                   /\ xmlDir' = res.xml
                   /\ tempDir' = tempDir \ SetOf(done)
                   /\ lastMove' = [ret |-> ret]
                   /\ RowReturns(Len(ret) > 0, SetOf(okTypes),
                                 {m[1] : m \in SetOf(res.moved)})
    /\ UNCHANGED <<factura, okTypes, rowsStarted, prompts>>
    /\ UNCHANGED <<page_count, curPage, loggedIn, choices, lastChoice,
                   nextCalls, lastNext>>
    /\ UNCHANGED <<runVars, pending>>

(***************************************************************************)
(* run: the operator's choice, pagination, summary and cleanup.            *)
(***************************************************************************)
\* an unrecognized choice taken as a retry
OnChoiceLenient(choice) ==
    CASE choice = "n" -> "summary"
      [] choice = "r" -> "page"
      [] choice = "y" -> "next"
      [] OTHER -> "page"

\* where the if/elif chain of run goes on the normalized choice
OnChoice(choice) ==
    CASE choice = "n" -> "summary"
      [] choice = "r" -> "page"
      [] choice = "y" -> "next"
      [] OTHER -> "summary"

\* choice = input("Choose option (y/n/r): ").lower().strip() and the
\* branch on it; stdin closed: EOFError.  The session loop is cut at
\* MaxPages page passes: no further pass is asked for by then
Choice ==
    /\ pc = "choice"
    /\ \/ /\ \E line \in ChoiceInputs :
               /\ lastChoice' = NormalizeChoice(line)
               /\ pc' = OnChoice(lastChoice')
               /\ pc' \in {"page", "next"} => page_count < MaxPages
          /\ choices' = choices + 1
          /\ UNCHANGED runVars
       \/ /\ Fails
          /\ UNCHANGED <<choices, lastChoice>>
    /\ lastRow' = NoRow
    /\ lastMove' = NoMove
    /\ UNCHANGED <<page_count, total_success, curPage, loggedIn, nextCalls,
                   lastNext>>
    /\ UNCHANGED <<factura, okTypes, rowsStarted, prompts>>
    /\ UNCHANGED <<pageVars, tempDir, pdfDir, xmlDir, dlVars>>

\* the first control clicked whatever its classes
ButtonToClickAny(buttons) == IF Len(buttons) > 0 THEN 1 ELSE 0

\* the control go_to_next_page clicks among buttons, 0 for none: the first
\* whose class attribute lacks the disabled marker
ButtonToClick(buttons) == FirstEnabled(buttons)

\* go_to_next_page(), and run's "if not self.go_to_next_page(): break".
\* A lookup (find_elements, get_attribute) may raise before any click; the
\* click script may raise with the click done or not.
GoToNextPage ==
    /\ pc = "next"
    /\ nextCalls' = nextCalls + 1
    /\ LET buttons == Pages[curPage].next
           b == ButtonToClick(buttons)
       IN  \/ \* a lookup raises
              /\ lastNext' = [page |-> curPage, clicked |-> << >>,
                              ret |-> FALSE, raised |-> TRUE]
              /\ curPage' = curPage
              /\ pc' = "summary"
           \/ \* no control, or every control disabled
              /\ b = 0
              /\ lastNext' = [page |-> curPage, clicked |-> << >>,
                              ret |-> FALSE, raised |-> FALSE]
              /\ curPage' = curPage
              /\ pc' = "summary"
           \/ \* the click
              /\ b # 0
              /\ lastNext' = [page |-> curPage, clicked |-> <<b>>,
                              ret |-> TRUE, raised |-> FALSE]
              /\ curPage' = NextPageOf(curPage)
              /\ pc' = "page"
           \/ \* the click script raises after clicking
              /\ b # 0
              /\ lastNext' = [page |-> curPage, clicked |-> <<b>>,
                              ret |-> FALSE, raised |-> FALSE]
              /\ curPage' = NextPageOf(curPage)
              /\ pc' = "summary"
    /\ UNCHANGED <<page_count, total_success, loggedIn, choices, lastChoice>>
    /\ UNCHANGED <<runVars, pageVars, rowVars, fsVars, dlVars>>

\* lines 318-324: the DOWNLOAD SUMMARY, the last statements of the try
\* block, and the cleanup
Summary ==
    /\ pc = "summary"
    /\ summary' = TRUE
    /\ Finally("normal")
    /\ lastNext' = NoNext
    /\ UNCHANGED <<page_count, total_success, curPage, loggedIn, choices,
                   lastChoice, nextCalls>>
    /\ UNCHANGED <<pageVars, rowVars, fsVars, dlVars>>

TryPcs ==
    {"start", "navigate", "login", "page", "xml", "xmlwait", "pdf", "pdfwait",
     "prompt", "organize", "choice", "next", "summary"}

\* Ctrl-C anywhere in the try block: no "except Exception" of the callees
\* catches KeyboardInterrupt, run's "except KeyboardInterrupt" does
Interrupt ==
    /\ pc \in TryPcs
    /\ Finally("interrupt")
    /\ summary' = summary
    /\ UNCHANGED <<loopVars, pageVars, rowVars, fsVars, dlVars>>

(***************************************************************************)
(* The environment: the browser's download manager and the passing of time.*)
(***************************************************************************)
\* the browser starts writing a requested file: a *.crdownload file appears
DownloadStarts ==
    /\ driver = "open"
    /\ \E d \in pending :
        /\ d.st = "requested"
        /\ pending' = (pending \ {d}) \cup {[d EXCEPT !.st = "inflight"]}
    /\ UNCHANGED <<pc, faults>>
    /\ UNCHANGED <<runVars, loopVars, pageVars, rowVars, fsVars>>

\* the download completes: the *.crdownload file becomes the file
DownloadCompletes ==
    /\ driver = "open"
    /\ \E d \in pending :
        /\ d.st = "inflight"
        /\ pending' = pending \ {d}
        /\ tempDir' = tempDir \cup
               {[pass |-> d.pass, page |-> d.page, idx |-> d.idx,
                 ext |-> d.ext, recent |-> TRUE]}
    /\ UNCHANGED <<pc, faults, pdfDir, xmlDir, lastMove>>
    /\ UNCHANGED <<runVars, loopVars, pageVars, rowVars>>

\* the request or the transfer fails: no file
DownloadFails ==
    /\ driver = "open"
    /\ faults < MaxFaults
    /\ faults' = faults + 1
    /\ \E d \in pending : pending' = pending \ {d}
    /\ UNCHANGED pc
    /\ UNCHANGED <<runVars, loopVars, pageVars, rowVars, fsVars>>

\* a document of temp_dir becomes older than 20 seconds
FileAges ==
    /\ pc # "exited"
    /\ faults < MaxFaults
    /\ faults' = faults + 1
    /\ \E f \in RecentFiles(tempDir) :
        tempDir' = (tempDir \ {f}) \cup {[f EXCEPT !.recent = FALSE]}
    /\ UNCHANGED <<pc, pending, pdfDir, xmlDir, lastMove>>
    /\ UNCHANGED <<runVars, loopVars, pageVars, rowVars>>

Next ==
    \/ SetupDriver \/ Navigate \/ Login
    \/ PageStart \/ TriggerXml \/ XmlWait \/ TriggerPdf \/ PdfWait
    \/ Prompt \/ Organize
    \/ Choice \/ GoToNextPage \/ Summary \/ Interrupt
    \/ DownloadStarts \/ DownloadCompletes \/ DownloadFails \/ FileAges

Spec == Init /\ [][Next]_vars

(***************************************************************************)
(* Properties.                                                             *)
(***************************************************************************)
\* the name the organizer gives the k-th file of a clean name (k = 0: the
\* base name)
NameOf(clean, k, ext) ==
    IF k = 0 THEN clean \o ext ELSE clean \o "_" \o ToString(k) \o ext

Kept(dir, dir2) == \A n \in DOMAIN dir : n \in DOMAIN dir2 /\ dir2[n] = dir[n]

SmallestFree(dir, ext) ==
    \A n \in DOMAIN dir :
        /\ n = NameOf(dir[n].clean, dir[n].k, ext)
        /\ \A j \in 0..(dir[n].k - 1) : NameOf(dir[n].clean, j, ext) \in DOMAIN dir

\* C1: move_downloaded_files never overwrites: every file of the pdf and
\* xml directories stays under its name with its content in every step, and
\* a file stored under '<clean_name>_<k><ext>' has the base name and every
\* smaller suffix taken in its directory (k is the smallest free one).
C1_NeverOverwrites ==
    [][/\ Kept(pdfDir, pdfDir')
       /\ Kept(xmlDir, xmlDir')
       /\ SmallestFree(pdfDir', ".pdf")
       /\ SmallestFree(xmlDir', ".xml")]_vars

\* a file was stored with suffix 2: the base name and suffix 1 were taken
C1_Witness == \E n \in DOMAIN xmlDir : xmlDir[n].k = 2

\* C2: once the browser is launched, run ends only with the browser closed,
\* by exactly one driver.quit(); quit is never called twice.
C2_BrowserClosedOnExit ==
    /\ quits <= 1
    /\ driver = "closed" => quits = 1
    /\ pc = "exited" => driver # "open"

\* run left by an operator interrupt during a page pass, browser closed
C2_Witness ==
    /\ pc = "exited"
    /\ how = "interrupt"
    /\ page_count >= 1
    /\ driver = "closed"
    /\ quits = 1

PassPcs == {"xml", "xmlwait", "pdf", "pdfwait", "prompt", "organize", "choice"}

\* C3: the session loop: no page pass before the login is confirmed; one
\* choice read per page pass; 'r' goes back to the page pass without
\* go_to_next_page; 'y' calls go_to_next_page once and goes back to the page
\* pass only if it returned True, else the loop ends; 'n' and any other
\* input end the loop without go_to_next_page.
C3_SessionLoop ==
    [][/\ page_count' > page_count => loggedIn /\ pc = "page"
       /\ pc' \in PassPcs => choices' = page_count' - 1
       /\ pc' \in {"page", "next", "summary"} => choices' = page_count'
       /\ nextCalls' # nextCalls => pc = "next" /\ nextCalls' = nextCalls + 1
       /\ (pc = "choice" /\ pc' \notin {"choice", "exited"}) =>
             /\ choices' = choices + 1
             /\ lastChoice' = "r" => pc' = "page"
             /\ lastChoice' = "y" => pc' = "next"
             /\ lastChoice' \notin {"r", "y"} => pc' = "summary"
       /\ (pc = "next" /\ pc' \notin {"next", "exited"}) =>
             /\ nextCalls' = nextCalls + 1
             /\ lastNext'.ret => pc' = "page"
             /\ ~lastNext'.ret => pc' = "summary"]_vars

\* 'y' was chosen, go_to_next_page returned True, the next page was passed
C3_Witness ==
    /\ pc = "choice"
    /\ page_count = 2
    /\ lastChoice = "y"
    /\ nextCalls = 1
    /\ choices = 1

HasDisabledMarker(c) == c # NoClass /\ Contains(c, "ui-state-disabled")

\* C4: go_to_next_page never clicks a control whose class attribute holds
\* 'ui-state-disabled'; it clicks at most one control, the first enabled
\* one in DOM order, and returns True only then; with no control, every
\* control disabled, or a lookup raising, it clicks nothing and returns
\* False.
C4_NextPage ==
    lastNext.page # 0 =>
        LET buttons == Pages[lastNext.page].next
            clicked == lastNext.clicked
        IN  /\ Len(clicked) <= 1
            /\ \A i \in SetOf(clicked) :
                 /\ ~HasDisabledMarker(buttons[i])
                 /\ \A j \in 1..(i - 1) : HasDisabledMarker(buttons[j])
            /\ lastNext.ret => Len(clicked) = 1
            /\ (\/ lastNext.raised
                \/ \A j \in 1..Len(buttons) : HasDisabledMarker(buttons[j])) =>
                 clicked = << >> /\ ~lastNext.ret

\* the first control is disabled, the second is clicked
C4_Witness == lastNext.ret /\ lastNext.clicked = <<2>>

\* C5: download_document_by_index returns success only if one of the two
\* file types was both triggered (clicked, wait confirmed) and a file of
\* that type was then moved by the organizer.
C5_SuccessOnlyIfTriggeredTypeMoved ==
    (lastRow.called /\ lastRow.ret) => lastRow.ok \cap lastRow.moved # {}

\* the files stored in a category directory
Stored(dir) == {dir[n] : n \in DOMAIN dir}

ScenarioFiles(dir) == {f \in Stored(dir) : f.page = 2 /\ f.pass = 1}

\* C6: a pass over the page of rows 5, 7, 9 (all links enabled, distinct
\* invoice numbers) that reports 3 of 3 rows successful and has its six
\* files in the xml and pdf directories has each file stored under the
\* sanitized invoice number of its own row, with the file's extension.
C6_FilesNamedAfterTheirRow ==
    (/\ pc = "choice"
     /\ curPage = 2
     /\ page_count = 1
     /\ successful = 3
     /\ Cardinality(ScenarioFiles(xmlDir)) = 3
     /\ Cardinality(ScenarioFiles(pdfDir)) = 3) =>
        /\ \A n \in DOMAIN xmlDir :
             n = CleanName(FacturaNumber(2, xmlDir[n].idx), 0) \o ".xml"
        /\ \A n \in DOMAIN pdfDir :
             n = CleanName(FacturaNumber(2, pdfDir[n].idx), 0) \o ".pdf"

\* C7 as claimed: every run that ends has printed the summary.
C7_SummaryAlways == pc = "exited" => summary

\* C7 amended: every run that ends has run its cleanup and returns without
\* an exception of its try block propagating; it has printed the summary
\* exactly when the loop ended by itself.
C7_SummaryOnlyOnNormalEnd ==
    /\ pc = "exited" =>
          /\ how \in {"normal", "interrupt", "error"}
          /\ summary <=> how = "normal"
          /\ driver # "open"
    /\ pc # "exited" => how = "running" /\ ~summary

\* the driver could not be launched: run ends without summary
C7_Witness == pc = "exited" /\ how = "error" /\ driver = "None" /\ ~summary

\* C8: the multi-download prompt is issued exactly once in a run, at the
\* first row the run handles.
C8_PromptOnceAtFirstRow ==
    /\ prompts \subseteq {1}
    /\ rowsStarted >= 2 => prompts = {1}

\* C9 as claimed: after a page pass that found no document anchor, no
\* further page is passed or navigated to.
C9_ZeroDocumentsEndsPagination ==
    zeroAt > 0 => page_count = zeroAt /\ pc \in {"choice", "summary", "exited"}

\* C9 amended: a page pass that finds no document anchor returns False
\* without raising and counts no success; run then reads the operator's
\* choice as after any other page.
C9_ZeroDocumentsAsksOperator ==
    [][(/\ pc = "page"
        /\ pc' \notin {"page", "exited"}
        /\ DocumentIndices(XmlLinkIds(curPage)) = << >>) =>
            /\ pc' = "choice"
            /\ lastPage' \in {"timeout", "nodocs", "error"}
            /\ total_success' = total_success
            /\ how' = "running"]_vars

\* a further page was passed after one without documents
C9_Witness == zeroAt = 1 /\ page_count = 2 /\ pc = "choice"

\* C10: the list move_downloaded_files returns is exactly the files the
\* call moved: each (category, destination) pair returned is new in its
\* category directory, nothing else is, and as many files left the
\* download directory; also when an error is raised part-way.
C10_ReturnsExactlyTheMoved ==
    [][(pc = "organize" /\ okTypes # << >> /\ pc' \in {"xml", "choice"}) =>
          LET placed == {<<"PDF", n>> : n \in DOMAIN pdfDir' \ DOMAIN pdfDir}
                        \cup {<<"XML", n>> : n \in DOMAIN xmlDir' \ DOMAIN xmlDir}
          IN  /\ SetOf(lastMove'.ret) = placed
              /\ Cardinality(tempDir \ tempDir') = Cardinality(placed)]_vars
====
